---------------------------- MODULE Spec2Model ----------------------------
(***************************************************************************)
(* A model of query-rs: the translation of a parsed SQL statement into the *)
(* logical query `Sql` (convert.rs), the source fetcher (fetcher.rs), the  *)
(* format loader (loader.rs), the two entry points `query` and            *)
(* `show_columns` (lib.rs) and the Node binding that calls them (query-js).*)
(*                                                                         *)
(* Text that the code inspects character by character (identifiers,        *)
(* number literals, source names) is a sequence of one-character strings.  *)
(* Numbers of the table engine are fixed-point integers scaled by Scale.   *)
(***************************************************************************)
EXTENDS Integers, Sequences, FiniteSets, TLC

VARIABLES
    host,      \* the caller: Rust code, or the Node binding with its arguments
               \* and what it gave back to JavaScript
    pc,        \* position of the call: entry, start, parsed, translated,
               \* fetched, loaded, done, failed, panicked
    call,      \* "query" or "show_columns"
    parsed,    \* outcome of Parser::parse_sql on the sql text
    format,    \* FormatType of the call (None until the binding chose it)
    sql,       \* Result<Sql, CustomError> of the translation
    raw,       \* text returned by the fetcher
    ds,        \* DataSet built by the loader
    sorted,    \* the rows inside the lazy plan of `query` after the filter and
               \* (general select) the sort
    result,    \* Result returned to the caller
    io         \* the network and file reads the call has made, in order

vars == <<host, pc, call, parsed, format, sql, raw, ds, sorted, result, io>>

-----------------------------------------------------------------------------
(* Bounds of the model *)

MaxOrderBy == 3      \* longest ORDER BY list
MaxIdent == 4        \* longest identifier text of a predicate leaf
MaxLit == 2          \* longest number literal text
MaxRows == 22        \* largest table
MaxNest == 2         \* deepest nesting of binary operators in a predicate
MaxItems == 2        \* longest select list

-----------------------------------------------------------------------------
(* Option and Result *)

None == [some |-> FALSE]
Some(x) == [some |-> TRUE, v |-> x]

Ok(x) == [ok |-> TRUE, v |-> x]
Err(kind, text) == [ok |-> FALSE, err |-> kind, arg |-> text]

Min(a, b) == IF a <= b THEN a ELSE b
Max(a, b) == IF a >= b THEN a ELSE b

RECURSIVE Pow10(_)
Pow10(n) == IF n = 0 THEN 1 ELSE 10 * Pow10(n - 1)

Reverse(s) == [i \in 1..Len(s) |-> s[Len(s) + 1 - i]]

\* All sequences over S of length lo..hi
SeqsOf(S, lo, hi) == UNION {[1..n -> S] : n \in lo..hi}


-----------------------------------------------------------------------------
(* Text: a sequence of one-character strings *)

Digits == {"0", "1", "2", "3", "4", "5", "6", "7", "8", "9"}

DigitVal(c) ==
    CASE c = "0" -> 0 [] c = "1" -> 1 [] c = "2" -> 2 [] c = "3" -> 3
      [] c = "4" -> 4 [] c = "5" -> 5 [] c = "6" -> 6 [] c = "7" -> 7
      [] c = "8" -> 8 [] c = "9" -> 9

AllDigits(s) == \A i \in 1..Len(s) : s[i] \in Digits

\* The value of a non-empty run of decimal digits
RECURSIVE DecVal(_)
DecVal(s) ==
    IF Len(s) = 0 THEN 0
    ELSE 10 * DecVal(SubSeq(s, 1, Len(s) - 1)) + DigitVal(s[Len(s)])

\* str::find: the first position where pat occurs in s, 0 when it does not
Find(s, pat) ==
    LET hits == {i \in 1..(Len(s) - Len(pat) + 1) :
                    SubSeq(s, i, i + Len(pat) - 1) = pat}
    IN IF hits = {} THEN 0 ELSE CHOOSE i \in hits : \A j \in hits : i <= j

\* str::split_once: the text before and after the first occurrence of pat
SplitOnce(s, pat) ==
    LET i == Find(s, pat)
    IN IF i = 0 THEN None
       ELSE Some([left |-> SubSeq(s, 1, i - 1),
                  right |-> SubSeq(s, i + Len(pat), Len(s))])

\* A 64-bit unsigned number is four 16-bit limbs, least significant first
\* (the checker's own integers end at 2^31 - 1)
Limb == 256 * 256
Small(n) == <<n % Limb, n \div Limb, 0, 0>>
U64Max == <<Limb - 1, Limb - 1, Limb - 1, Limb - 1>>

\* 10 * x + d, and whether it left 64 bits
MulAdd10(x, d) ==
    LET t1 == x[1] * 10 + d
        t2 == x[2] * 10 + t1 \div Limb
        t3 == x[3] * 10 + t2 \div Limb
        t4 == x[4] * 10 + t3 \div Limb
    IN [v |-> <<t1 % Limb, t2 % Limb, t3 % Limb, t4 % Limb>>,
        over |-> t4 \div Limb > 0]

\* The digits of s read as a 64-bit number: None on overflow
RECURSIVE DecU64(_)
DecU64(s) ==
    IF Len(s) = 0 THEN Some(Small(0))
    ELSE LET r == DecU64(SubSeq(s, 1, Len(s) - 1))
         IN IF ~r.some THEN None
            ELSE LET m == MulAdd10(r.v, DigitVal(s[Len(s)]))
                 IN IF m.over THEN None ELSE Some(m.v)

\* x >= n and min(x, n), for a 64-bit x and a small n
AtLeast(x, n) ==
    \/ x[4] > 0 \/ x[3] > 0 \/ x[2] > n \div Limb
    \/ x[2] = n \div Limb /\ x[1] >= n % Limb
Capped(x, n) == IF AtLeast(x, n) THEN n ELSE x[2] * Limb + x[1]

\* <usize as FromStr>::from_str (64-bit usize): an optional "+", at least
\* one digit, no overflow
ParseUsize(s) ==
    LET signed == Len(s) > 0 /\ s[1] = "+"
        body == IF signed THEN SubSeq(s, 2, Len(s)) ELSE s
    IN IF Len(body) = 0 \/ ~AllDigits(body) THEN None ELSE DecU64(body)

\* <i64 as FromStr>::from_str on the unsigned text of a number token: at
\* least one digit, the value under 2^63
ParseI64(s) ==
    LET signed == Len(s) > 0 /\ s[1] = "+"
        body == IF signed THEN SubSeq(s, 2, Len(s)) ELSE s
        r == DecU64(body)
    IN IF Len(body) = 0 \/ ~AllDigits(body) THEN None
       ELSE IF ~r.some \/ r.v[4] >= Limb \div 2 THEN None ELSE r

\* Numbers of the engine: fixed point, Scale units to one
FracDigits == Max(MaxIdent, MaxLit)
Scale == Pow10(FracDigits)

\* <f64 as FromStr>::from_str on decimal text: an optional sign, digits with
\* an optional point, at least one digit in all (the exponent and the
\* inf/nan spellings need letters no text of the model holds)
ParseF64(s) ==
    LET signed == Len(s) > 0 /\ s[1] \in {"+", "-"}
        body == IF signed THEN SubSeq(s, 2, Len(s)) ELSE s
        dot == Find(body, <<".">>)
        ip == IF dot = 0 THEN body ELSE SubSeq(body, 1, dot - 1)
        fp == IF dot = 0 THEN <<>> ELSE SubSeq(body, dot + 1, Len(body))
        mag == DecVal(ip) * Scale + DecVal(fp) * Pow10(FracDigits - Len(fp))
    IN IF ~AllDigits(ip) \/ ~AllDigits(fp) \/ Len(ip) + Len(fp) = 0 THEN None
       ELSE Some(IF signed /\ s[1] = "-" THEN 0 - mag ELSE mag)

UnwrapOr(opt, d) == IF opt.some THEN opt.v ELSE d

-----------------------------------------------------------------------------
(* sqlparser's syntax tree, as far as the translation reads it *)

Ident(s) == [k |-> "Identifier", value |-> s]
Number(s) == [k |-> "Number", s |-> s]
SingleQuotedString(s) == [k |-> "SingleQuotedString", s |-> s]
Value(v) == [k |-> "Value", value |-> v]
BinaryOp(l, op, r) == [k |-> "BinaryOp", left |-> l, op |-> op, right |-> r]
Nested(e) == [k |-> "Nested", e |-> e]
SqlWildcard == [k |-> "Wildcard"]

\* polars expressions
Column(name) == [k |-> "Column", name |-> name]
Literal(x) == [k |-> "Literal", v |-> x]
BinaryExpr(l, op, r) == [k |-> "BinaryExpr", left |-> l, op |-> op, right |-> r]
Alias(e, name) == [k |-> "Alias", e |-> e, name |-> name]
Wildcard == [k |-> "Wildcard"]

-----------------------------------------------------------------------------
(* convert.rs: the translation *)

\* TryFromInterimOperator with GtEq taken for Gt
TryFromInterimOperatorGt(op) ==
    CASE op = "Plus" -> Ok("Plus")
      [] op = "Minus" -> Ok("Minus")
      [] op = "Multiply" -> Ok("Multiply")
      [] op = "Divide" -> Ok("Divide")
      [] op = "Modulo" -> Ok("Modulus")
      [] op = "Gt" -> Ok("Gt")
      [] op = "Lt" -> Ok("Lt")
      [] op = "GtEq" -> Ok("Gt")
      [] op = "LtEq" -> Ok("LtEq")
      [] op = "Eq" -> Ok("Eq")
      [] op = "NotEq" -> Ok("NotEq")
      [] op = "And" -> Ok("And")
      [] op = "Or" -> Ok("Or")
      [] OTHER -> Err("SqlOperatorError", op)

\* impl TryFrom<InterimOperator> for Operator
TryFromInterimOperator(op) ==
    CASE op = "Plus" -> Ok("Plus")
      [] op = "Minus" -> Ok("Minus")
      [] op = "Multiply" -> Ok("Multiply")
      [] op = "Divide" -> Ok("Divide")
      [] op = "Modulo" -> Ok("Modulus")
      [] op = "Gt" -> Ok("Gt")
      [] op = "Lt" -> Ok("Lt")
      [] op = "GtEq" -> Ok("GtEq")
      [] op = "LtEq" -> Ok("LtEq")
      [] op = "Eq" -> Ok("Eq")
      [] op = "NotEq" -> Ok("NotEq")
      [] op = "And" -> Ok("And")
      [] op = "Or" -> Ok("Or")
      [] OTHER -> Err("SqlOperatorError", op)

\* impl TryFrom<&str> for InterimOperator
TryFromStr(value) ==
    CASE value = <<">">> -> Ok("Gt")
      [] value = <<">", "=">> -> Ok("GtEq")
      [] value = <<"=">> -> Ok("Eq")
      [] value = <<"<">> -> Ok("Lt")
      [] value = <<"<", "=">> -> Ok("LtEq")
      [] OTHER -> Err("SqlOperatorError", value)

\* impl TryFrom<InterimValue> for LiteralValue
TryFromInterimValue(value) ==
    IF value.k = "Number" THEN Ok(UnwrapOr(ParseF64(value.s), 0))
    ELSE Err("SqlValueError", value.k)

\* The operator texts an identifier is searched for, in the order of the loop
IdentOps == << <<"=">>, <<">">>, <<">", "=">>, <<"<">>, <<"<", "=">> >>

\* impl TryFrom<InterimExpr> for Expr
RECURSIVE TryFromInterimExpr(_)
TryFromInterimExpr(expr) ==
    CASE expr.k = "BinaryOp" ->
            LET left == TryFromInterimExpr(expr.left)
                op == TryFromInterimOperator(expr.op)
                right == TryFromInterimExpr(expr.right)
            IN IF ~left.ok THEN left
               ELSE IF ~op.ok THEN op
               ELSE IF ~right.ok THEN right
               ELSE Ok(BinaryExpr(left.v, op.v, right.v))
      [] expr.k = "Wildcard" -> Ok(Wildcard)
      [] expr.k = "Identifier" ->
            LET found == {i \in 1..Len(IdentOps) :
                             SplitOnce(expr.value, IdentOps[i]).some}
            IN IF found = {} THEN Ok(Column(expr.value))
               ELSE LET i == CHOOSE i \in found : \A j \in found : i <= j
                        parts == SplitOnce(expr.value, IdentOps[i]).v
                        temp_op == TryFromStr(IdentOps[i])
                        left == TryFromInterimExpr(Ident(parts.left))
                        op == TryFromInterimOperator(temp_op.v)
                        right == TryFromInterimExpr(Value(Number(parts.right)))
                    IN IF ~temp_op.ok THEN temp_op
                       ELSE IF ~left.ok THEN left
                       ELSE IF ~op.ok THEN op
                       ELSE IF ~right.ok THEN right
                       ELSE Ok(BinaryExpr(left.v, op.v, right.v))
      [] expr.k = "Value" ->
            LET v == TryFromInterimValue(expr.value)
            IN IF v.ok THEN Ok(Literal(v.v)) ELSE v
      [] OTHER -> Err("SqlExpressionError", expr.k)

\* polars' col(): the name "*" is the wildcard
Col(name) == IF name = <<"*">> THEN Wildcard ELSE Column(name)

\* impl TryFrom<InterimSelectItem> for Expr
TryFromInterimSelectItem(p) ==
    IF p.k = "UnnamedExpr" /\ p.expr.k = "Identifier" THEN Ok(Col(p.expr.value))
    ELSE IF p.k = "ExprWithAlias" /\ p.expr.k = "Identifier"
         THEN Ok(Alias(Column(p.expr.value), p.alias))
    ELSE Err("SqlSelectItemError", p.k)

\* TryFromInterimSource without the check for joins
TryFromInterimSourceJoined(source) ==
    IF Len(source) # 1 THEN Err("SqlTableError", "empty")
    ELSE LET table == source[1]
         IN IF table.relation.k = "Table"
            THEN LET name == table.relation.name
                 IN IF Len(name) > 0 /\ name[1].k = "Identifier"
                    THEN Ok(name[1].value)
                    ELSE Err("SqlTableError", "name")
            ELSE Err("SqlTableError", table.relation.k)

\* impl TryFrom<InterimSource> for &str
TryFromInterimSource(source) ==
    IF Len(source) # 1 THEN Err("SqlTableError", "empty")
    ELSE LET table == source[1]
         IN IF Len(table.joins) # 0 THEN Err("SqlTableError", "joint table")
            ELSE IF table.relation.k = "Table"
                 THEN LET name == table.relation.name
                      IN IF Len(name) > 0 /\ name[1].k = "Identifier"
                         THEN Ok(name[1].value)
                         ELSE Err("SqlTableError", "name")
            ELSE Err("SqlTableError", table.relation.k)

\* OrderStep taking the direction of the first entry pushed, not the last
OrderStepFromFirst(acc, order_by) ==
    IF order_by.expr.k = "Identifier"
    THEN LET order_type ==
                 IF order_by.asc.some
                 THEN (IF order_by.asc.v = TRUE THEN "Asc" ELSE "Desc")
                 ELSE IF Len(acc) > 0 THEN acc[1].order
                 ELSE "Desc"
         IN Append(acc, [name |-> order_by.expr.value, order |-> order_type])
    ELSE acc

\* The closure of the rfold: one ORDER BY entry, right to left
OrderStep(acc, order_by) ==
    IF order_by.expr.k = "Identifier"
    THEN LET order_type ==
                 IF order_by.asc.some
                 THEN (IF order_by.asc.v = TRUE THEN "Asc" ELSE "Desc")
                 ELSE IF Len(acc) > 0 THEN acc[Len(acc)].order
                 ELSE "Desc"
         IN Append(acc, [name |-> order_by.expr.value, order |-> order_type])
    ELSE acc

RECURSIVE RFold(_, _)
RFold(list, acc) ==
    IF Len(list) = 0 THEN acc
    ELSE RFold(SubSeq(list, 1, Len(list) - 1), OrderStep(acc, list[Len(list)]))

\* TryFromInterimOrderBy refusing an entry that is no identifier
TryFromInterimOrderByStrict(o) ==
    IF o.kind = "Expressions"
    THEN (IF \E i \in 1..Len(o.exprs) : o.exprs[i].expr.k # "Identifier"
          THEN Err("SqlOrderError", "expr")
          ELSE Ok(Reverse(RFold(o.exprs, <<>>))))
    ELSE Ok(<<>>)

\* impl TryFrom<InterimOrderBy> for Vec<(String, OrderType)>
TryFromInterimOrderBy(o) ==
    IF o.kind = "Expressions" THEN Ok(Reverse(RFold(o.exprs, <<>>)))
    ELSE Ok(<<>>)

\* impl From<InterimOffset> for i64
FromInterimOffset(offset) ==
    IF offset.value.k = "Value" /\ offset.value.value.k = "Number"
    THEN UnwrapOr(ParseI64(offset.value.value.s), Small(0))
    ELSE Small(0)

FallbackLimit == 100

\* impl From<InterimLimit> for usize
FromInterimLimit(l) ==
    IF l.k = "Value"
    THEN (IF l.value.k = "Number"
          THEN UnwrapOr(ParseUsize(l.value.s), U64Max)
          ELSE Small(FallbackLimit))
    ELSE U64Max

\* SelectOf refusing a body with the error kind of a statement
SelectOfAsStatement(body) ==
    IF body.k = "Select" THEN Ok(body) ELSE Err("SqlStatementError", body.k)

\* The match on q.body: only SetExpr::Select goes on
SelectOf(body) ==
    IF body.k = "Select" THEN Ok(body) ELSE Err("SqlExpressionError", body.k)

\* impl TryFrom<&Statement> for Sql
TryFromStatement(stmt) ==
    IF stmt.k # "Query" THEN Err("SqlStatementError", stmt.k)
    ELSE
    LET q == stmt
        lc == q.limit_clause
        isLO == lc.some /\ lc.v.k = "LimitOffset"
        limit == IF isLO /\ lc.v.limit.some
                 THEN Some(FromInterimLimit(lc.v.limit.v)) ELSE None
        offset == IF isLO /\ lc.v.offset.some
                  THEN Some(FromInterimOffset(lc.v.offset.v)) ELSE None
        order_by == IF q.order_by.some THEN TryFromInterimOrderBy(q.order_by.v)
                    ELSE Ok(<<>>)
        select == SelectOf(q.body)
        source == TryFromInterimSource(select.v.from)
        condition == IF select.v.selection.some
                     THEN TryFromInterimExpr(select.v.selection.v)
                     ELSE Ok(None)
        items == [i \in 1..Len(select.v.projection) |->
                     TryFromInterimSelectItem(select.v.projection[i])]
        bad == {i \in 1..Len(items) : ~items[i].ok}
    IN IF ~order_by.ok THEN order_by
       ELSE IF ~select.ok THEN select
       ELSE IF ~source.ok THEN source
       ELSE IF ~condition.ok THEN condition
       ELSE IF bad # {} THEN items[CHOOSE i \in bad : \A j \in bad : i <= j]
       ELSE Ok([selection |-> [i \in 1..Len(items) |-> items[i].v],
                source |-> source.v,
                limit |-> limit,
                offset |-> offset,
                condition |-> IF select.v.selection.some THEN Some(condition.v)
                              ELSE None,
                order_by |-> order_by.v])

-----------------------------------------------------------------------------
(* fetcher.rs *)

\* Bytes of a character in UTF-8 (the one wide character of the model is "é")
CharLen(c) == IF c = "é" THEN 2 ELSE 1

RECURSIVE ByteLen(_)
ByteLen(s) == IF Len(s) = 0 THEN 0
              ELSE ByteLen(SubSeq(s, 1, Len(s) - 1)) + CharLen(s[Len(s)])

\* The number of leading characters that make up exactly n bytes, -1 when
\* byte n is past the end or inside a character (the slice panics)
CharsAt(s, n) ==
    LET ks == {k \in 0..Len(s) : ByteLen(SubSeq(s, 1, k)) = n}
    IN IF ks = {} THEN 0 - 1 ELSE CHOOSE k \in ks : TRUE

PrefixLen == 4
SchemeLen == 7

\* retrieve_data up to the fetcher it picks: the slice &name[..4], the match
\* on it and, in the file fetcher, the slice &self.0[7..]
Dispatch(name) ==
    LET k == CharsAt(name, PrefixLen)
        prefix == SubSeq(name, 1, k)
        p == CharsAt(name, SchemeLen)
    IN IF k < 0 THEN [to |-> "panic"]
       ELSE IF prefix = <<"h", "t", "t", "p">> THEN [to |-> "get", arg |-> name]
       ELSE IF prefix = <<"f", "i", "l", "e">>
            THEN (IF p < 0 THEN [to |-> "panic"]
                  ELSE [to |-> "read", arg |-> SubSeq(name, p + 1, Len(name))])
       ELSE [to |-> "error", arg |-> prefix]

-----------------------------------------------------------------------------
(* The table engine (polars), as far as query and show_columns drive it *)

ColIndex(t, name) ==
    LET is == {i \in 1..Len(t.cols) : t.cols[i].name = name}
    IN IF is = {} THEN 0 ELSE CHOOSE i \in is : TRUE

Arith == {"Plus", "Minus", "Multiply", "Divide", "Modulus"}
Compare == {"Eq", "NotEq", "Gt", "GtEq", "Lt", "LtEq"}

\* The type of an expression over the columns of t: num, bool or err
RECURSIVE TypeOf(_, _)
TypeOf(e, t) ==
    CASE e.k = "Column" -> IF ColIndex(t, e.name) = 0 THEN "err" ELSE "num"
      [] e.k = "Literal" -> "num"
      [] e.k = "BinaryExpr" ->
            LET l == TypeOf(e.left, t)
                r == TypeOf(e.right, t)
            IN IF l = "err" \/ r = "err" THEN "err"
               ELSE IF e.op \in Arith THEN "num"
               ELSE IF e.op \in Compare THEN "bool"
               ELSE IF l = "bool" /\ r = "bool" THEN "bool"
               ELSE "err"
      [] OTHER -> "err"

\* A boolean operand of a comparison or of arithmetic counts as 0 or 1
AsNum(x, type) == IF type = "bool" THEN (IF x THEN Scale ELSE 0) ELSE x

\* The value of a well-typed expression on one row (fixed point)
RECURSIVE Eval(_, _, _)
Eval(e, t, row) ==
    CASE e.k = "Column" -> row[ColIndex(t, e.name)]
      [] e.k = "Literal" -> e.v
      [] e.k = "BinaryExpr" ->
            LET l == Eval(e.left, t, row)
                r == Eval(e.right, t, row)
                x == AsNum(l, TypeOf(e.left, t))
                y == AsNum(r, TypeOf(e.right, t))
            IN CASE e.op = "And" -> l /\ r
                 [] e.op = "Or" -> l \/ r
                 [] e.op = "Eq" -> x = y
                 [] e.op = "NotEq" -> x # y
                 [] e.op = "Gt" -> x > y
                 [] e.op = "GtEq" -> x >= y
                 [] e.op = "Lt" -> x < y
                 [] e.op = "LtEq" -> x <= y
                 [] e.op = "Plus" -> x + y
                 [] e.op = "Minus" -> x - y
                 [] e.op = "Multiply" -> (x * y) \div Scale
                 [] e.op = "Divide" -> IF y = 0 THEN 0 ELSE (x * Scale) \div y
                 [] e.op = "Modulus" -> IF y = 0 THEN 0 ELSE x % y

\* LazyFrame::filter: a predicate that is not boolean fails the plan
Filter(condition, t) ==
    IF ~condition.some THEN Ok(t.rows)
    ELSE IF TypeOf(condition.v, t) # "bool" THEN Err("PolarsError", "filter")
    ELSE LET Keep(row) == Eval(condition.v, t, row)
         IN Ok(SelectSeq(t.rows, Keep))

\* row x goes before row y under the sort keys, or they tie
RECURSIVE Before(_, _, _)
Before(x, y, keys) ==
    IF Len(keys) = 0 THEN "tie"
    ELSE LET k == keys[1]
         IN IF x[k.idx] = y[k.idx] THEN Before(x, y, Tail(keys))
            ELSE IF (x[k.idx] < y[k.idx]) # k.desc THEN "yes" ELSE "no"

\* Insert row x into the sorted rows, after the rows it ties with
RECURSIVE Insert(_, _, _)
Insert(x, rows, keys) ==
    IF Len(rows) = 0 THEN <<x>>
    ELSE IF Before(x, rows[1], keys) = "yes" THEN <<x>> \o rows
    ELSE <<rows[1]>> \o Insert(x, Tail(rows), keys)

RECURSIVE StableSort(_, _)
StableSort(rows, keys) ==
    IF Len(rows) = 0 THEN <<>>
    ELSE Insert(rows[Len(rows)],
                StableSort(SubSeq(rows, 1, Len(rows) - 1), keys), keys)

\* LazyFrame::sort over the named columns: no column leaves the rows as
\* they are, an unknown column fails the plan; the order among rows that
\* tie is the engine's choice (ties: "keep" or "flip")
Sort(rows, t, cols, orders, ties) ==
    LET idx == [i \in 1..Len(cols) |-> ColIndex(t, cols[i])]
        keys == [i \in 1..Len(cols) |-> [idx |-> idx[i], desc |-> orders[i]]]
    IN IF Len(cols) = 0 THEN Ok(rows)
       ELSE IF \E i \in 1..Len(cols) : idx[i] = 0 THEN Err("PolarsError", "sort")
       ELSE Ok(StableSort(IF ties = "flip" THEN Reverse(rows) ELSE rows, keys))

\* usize as IdxSize: the low 32 bits
AsIdxSize(n) == <<n[1], n[2], 0, 0>>

\* LazyFrame::slice(offset, len)
Slice(rows, offset, len) ==
    LET start == Capped(offset, Len(rows))
        count == Capped(len, Len(rows) - start)
    IN SubSeq(rows, start + 1, start + count)

\* The output columns of one selection expression: name and source column
Outputs(e, t) ==
    CASE e.k = "Wildcard" ->
            [i \in 1..Len(t.cols) |-> [name |-> t.cols[i].name, idx |-> i]]
      [] e.k = "Column" -> <<[name |-> e.name, idx |-> ColIndex(t, e.name)]>>
      [] e.k = "Alias" -> <<[name |-> e.name, idx |-> ColIndex(t, e.e.name)]>>

RECURSIVE Concat(_)
Concat(ss) == IF Len(ss) = 0 THEN <<>> ELSE ss[1] \o Concat(Tail(ss))

\* LazyFrame::select: an unknown column or a repeated output name fails
Select(rows, t, selection) ==
    LET outs == Concat([i \in 1..Len(selection) |-> Outputs(selection[i], t)])
    IN IF \E i \in 1..Len(outs) : outs[i].idx = 0
       THEN Err("PolarsError", "select")
       ELSE IF \E i, j \in 1..Len(outs) : i # j /\ outs[i].name = outs[j].name
       THEN Err("PolarsError", "duplicate")
       ELSE Ok([cols |-> [i \in 1..Len(outs) |->
                            [name |-> outs[i].name,
                             dtype |-> t.cols[outs[i].idx].dtype]],
                rows |-> [r \in 1..Len(rows) |->
                            [i \in 1..Len(outs) |-> rows[r][outs[i].idx]]]])

-----------------------------------------------------------------------------
(* lib.rs: query and show_columns, one action per stage *)

DefaultOffset == 0
DefaultLimit == 20

\* What the source holds is the environment's: a text that the csv reader,
\* the json reader or neither turns into a table
Column2(n) == [cols |-> <<[name |-> <<"a">>, dtype |-> "Int64"],
                         [name |-> <<"b">>, dtype |-> "Float64"]>>,
               rows |-> [i \in 1..n |-> <<((2 * i) % 3) * Scale, i * Scale>>]]

RowCounts == {0, 3, MaxRows}
Tables == {Column2(n) : n \in RowCounts}

Docs == {[csv |-> Some(t), json |-> None] : t \in Tables}
          \cup {[csv |-> None, json |-> Some(Column2(3))],
                [csv |-> None, json |-> None]}

\* detect_content(format_type, data).load()
LoadDoc(format_type, data) ==
    LET df == IF format_type = "Csv" THEN data.csv ELSE data.json
    IN IF df.some THEN Ok(df.v) ELSE Err("anyhow", "load")

Fail(e) ==
    /\ pc' = "failed"
    /\ result' = e

\* Parse going on with the first statement of several
ParseFirst ==
    /\ pc = "start"
    /\ IF ~parsed.ok THEN Fail(Err("SqlConvertError", "parse"))
       ELSE IF Len(parsed.ast) = 0 THEN Fail(Err("SqlConvertError", "ast"))
       ELSE pc' = "parsed" /\ UNCHANGED result
    /\ UNCHANGED <<host, call, parsed, format, sql, raw, ds, sorted, io>>

\* Parser::parse_sql and the check that it gave one statement
Parse ==
    /\ pc = "start"
    /\ IF ~parsed.ok THEN Fail(Err("SqlConvertError", "parse"))
       ELSE IF Len(parsed.ast) # 1 THEN Fail(Err("SqlConvertError", "ast"))
       ELSE pc' = "parsed" /\ UNCHANGED result
    /\ UNCHANGED <<host, call, parsed, format, sql, raw, ds, sorted, io>>

\* The GROUP BY columns of a SELECT, verbatim and in order
GroupByOf(select) == [i \in 1..Len(select.group_by) |-> select.group_by[i].value]

\* The aggregate expressions of a select list, each with its alias
AggregationOf(projection) ==
    LET IsAgg(p) == p.k = "ExprWithAlias" /\ p.expr.k = "Function"
        aggs == SelectSeq(projection, IsAgg)
    IN [i \in 1..Len(aggs) |->
          [k |-> "Agg", fn |-> aggs[i].expr.name, arg |-> aggs[i].expr.arg,
           name |-> aggs[i].alias]]

\* The logical query as `query` destructures it: the fields the translation
\* fills, with group_by and aggregation
WithGrouping(r, stmt) ==
    IF ~r.ok THEN r
    ELSE Ok([selection |-> r.v.selection, condition |-> r.v.condition,
             source |-> r.v.source, order_by |-> r.v.order_by,
             offset |-> r.v.offset, limit |-> r.v.limit,
             group_by |-> GroupByOf(stmt.body),
             aggregation |-> AggregationOf(stmt.body.projection)])

\* (&ast[0]).try_into()?
Translate ==
    /\ pc = "parsed"
    /\ sql' = WithGrouping(TryFromStatement(parsed.ast[1]), parsed.ast[1])
    /\ IF sql'.ok THEN pc' = "translated" /\ UNCHANGED result
       ELSE Fail(sql')
    /\ UNCHANGED <<host, call, parsed, format, raw, ds, sorted, io>>

\* retrieve_data(source).await?
Fetch ==
    /\ pc = "translated"
    /\ LET d == Dispatch(sql.v.source)
       IN CASE d.to = "panic" ->
                 /\ pc' = "panicked"
                 /\ UNCHANGED <<raw, result, io>>
            [] d.to = "error" ->
                 /\ Fail(Err("FetchResourceError", d.arg))
                 /\ UNCHANGED <<raw, io>>
            [] OTHER ->
                 /\ io' = Append(io, d)
                 /\ \/ /\ Fail(Err("FetchError", sql.v.source))
                       /\ UNCHANGED raw
                    \/ /\ \E body \in Docs : raw' = Some(body)
                       /\ pc' = "fetched"
                       /\ UNCHANGED result
    /\ UNCHANGED <<host, call, parsed, format, sql, ds, sorted>>

\* detect_content(format_type, data).load().map_err(..)?
Load ==
    /\ pc = "fetched"
    /\ LET r == LoadDoc(format, raw.v)
       IN IF r.ok THEN ds' = Some(r.v) /\ pc' = "loaded" /\ UNCHANGED result
          ELSE Fail(Err("FetchError", <<>>)) /\ UNCHANGED ds
    /\ raw' = None
    /\ UNCHANGED <<host, call, parsed, format, sql, sorted, io>>

\* show_columns: the fields of the loaded table
Fields ==
    /\ pc = "loaded"
    /\ call = "show_columns"
    /\ result' = Ok([i \in 1..Len(ds.v.cols) |->
                       <<ds.v.cols[i].name, ds.v.cols[i].dtype>>])
    /\ pc' = "done"
    /\ UNCHANGED <<host, call, parsed, format, sql, raw, ds, sorted, io>>

\* The general select of query: filter, sort, slice, select
GeneralSelect(q, t, ties) ==
    LET filtered == Filter(q.condition, t)
        cols == [i \in 1..Len(q.order_by) |-> q.order_by[i].name]
        orders == [i \in 1..Len(q.order_by) |-> q.order_by[i].order = "Desc"]
        ordered == Sort(filtered.v, t, cols, orders, ties)
        sliced == IF q.offset.some \/ q.limit.some
                  THEN Slice(ordered.v, UnwrapOr(q.offset, Small(DefaultOffset)),
                             AsIdxSize(UnwrapOr(q.limit, Small(DefaultLimit))))
                  ELSE ordered.v
        dataset == Select(sliced, t, q.selection)
    IN IF ~filtered.ok THEN [plan |-> None, out |-> filtered]
       ELSE IF ~ordered.ok THEN [plan |-> None, out |-> ordered]
       ELSE [plan |-> Some(ordered.v), out |-> dataset]

\* The key of a row under the group-by columns idx
KeyOf(row, idx) == [j \in 1..Len(idx) |-> row[idx[j]]]

\* The keys of the rows, each once, in the order of first appearance
RECURSIVE Keys(_, _)
Keys(rows, idx) ==
    IF Len(rows) = 0 THEN <<>>
    ELSE LET before == Keys(SubSeq(rows, 1, Len(rows) - 1), idx)
             key == KeyOf(rows[Len(rows)], idx)
         IN IF \E i \in 1..Len(before) : before[i] = key THEN before
            ELSE Append(before, key)

\* One aggregate over the rows of a group
Aggregate(agg, rows, t) ==
    IF agg.fn = "count" THEN Len(rows) * Scale
    ELSE LET i == ColIndex(t, agg.arg)
         IN CHOOSE x \in {rows[r][i] : r \in 1..Len(rows)} :
               \A r \in 1..Len(rows) : rows[r][i] <= x

\* LazyFrame::group_by(keys).agg(aggregation): one row per key, the key
\* columns and then the aggregates; an unknown column fails the plan, and
\* the order of the groups is the engine's (order: "keep" or "flip")
GroupBy(rows, t, group_by, aggregation, order) ==
    LET idx == [j \in 1..Len(group_by) |-> ColIndex(t, group_by[j])]
        keys == Keys(rows, idx)
        Members(key) == LET In(row) == KeyOf(row, idx) = key
                        IN SelectSeq(rows, In)
        unknown == \/ \E j \in 1..Len(idx) : idx[j] = 0
                   \/ \E j \in 1..Len(aggregation) :
                         /\ aggregation[j].fn # "count"
                         /\ ColIndex(t, aggregation[j].arg) = 0
        groups == [g \in 1..Len(keys) |->
                     keys[g] \o [j \in 1..Len(aggregation) |->
                                   Aggregate(aggregation[j], Members(keys[g]), t)]]
    IN IF unknown THEN Err("PolarsError", "group_by")
       ELSE Ok([cols |-> [j \in 1..Len(idx) |-> t.cols[idx[j]]]
                           \o [j \in 1..Len(aggregation) |->
                                 [name |-> aggregation[j].name,
                                  dtype |-> IF aggregation[j].fn = "count"
                                            THEN "UInt32" ELSE "Float64"]],
                rows |-> IF order = "flip" THEN Reverse(groups) ELSE groups])

\* GroupBySelect with the slice of the general select put after the grouping
GroupBySelectSliced(q, t, order) ==
    LET filtered == Filter(q.condition, t)
        grouped == GroupBy(filtered.v, t, q.group_by, q.aggregation, order)
        sliced == IF q.offset.some \/ q.limit.some
                  THEN Slice(grouped.v.rows, UnwrapOr(q.offset, Small(0)),
                             AsIdxSize(UnwrapOr(q.limit, Small(20))))
                  ELSE grouped.v.rows
    IN IF ~filtered.ok THEN [plan |-> None, out |-> filtered]
       ELSE IF ~grouped.ok THEN [plan |-> Some(filtered.v), out |-> grouped]
       ELSE [plan |-> Some(filtered.v),
             out |-> Select(sliced, grouped.v, q.selection)]

\* The group by select of query: filter, group_by, agg, select
GroupBySelect(q, t, order) ==
    LET filtered == Filter(q.condition, t)
        grouped == GroupBy(filtered.v, t, q.group_by, q.aggregation, order)
    IN IF ~filtered.ok THEN [plan |-> None, out |-> filtered]
       ELSE IF ~grouped.ok THEN [plan |-> Some(filtered.v), out |-> grouped]
       ELSE [plan |-> Some(filtered.v),
             out |-> Select(grouped.v.rows, grouped.v, q.selection)]

\* query: the plan over the loaded table, collected
Execute ==
    /\ pc = "loaded"
    /\ call = "query"
    /\ \E ties \in {"keep", "flip"} :
          LET r == IF Len(sql.v.group_by) > 0
                   THEN GroupBySelect(sql.v, ds.v, ties)
                   ELSE GeneralSelect(sql.v, ds.v, ties)
          IN /\ sorted' = r.plan
             /\ result' = r.out
             /\ pc' = IF r.out.ok THEN "done" ELSE "failed"
    /\ UNCHANGED <<host, call, parsed, format, sql, raw, ds, io>>

\* str::to_lowercase on the letters of the format names
ToLowercase(s) ==
    [i \in 1..Len(s) |->
        CASE s[i] = "C" -> "c" [] s[i] = "S" -> "s" [] s[i] = "V" -> "v"
          [] s[i] = "J" -> "j" [] s[i] = "O" -> "o" [] s[i] = "N" -> "n"
          [] s[i] = "X" -> "x" [] s[i] = "M" -> "m" [] s[i] = "L" -> "l"
          [] OTHER -> s[i]]

\* impl TryFrom<&str> for FormatType
TryFromStrFormatType(value) ==
    LET v == ToLowercase(value)
    IN CASE v = <<"c", "s", "v">> -> Ok("Csv")
         [] v = <<"j", "s", "o", "n">> -> Ok("Json")
         [] OTHER -> Err("LoadTypeError", v)

DefaultArg == <<"c", "s", "v">>

\* query-js: the format argument becomes the FormatType of the call
Bind ==
    /\ pc = "entry"
    /\ LET arg_prams == UnwrapOr(host.format, DefaultArg)
           load_type == TryFromStrFormatType(arg_prams)
       IN format' = IF load_type.ok THEN load_type.v ELSE "Csv"
    /\ pc' = "start"
    /\ UNCHANGED <<host, call, parsed, sql, raw, ds, sorted, result, io>>

\* query-js: unwrap of the outcome, then the answer in the output format
Render ==
    /\ host.binding = "js"
    /\ host.out = None
    /\ pc \in {"done", "failed"}
    /\ LET output_format == UnwrapOr(host.output, DefaultArg)
       IN host' = [host EXCEPT !.out =
             IF pc = "failed" THEN Some([k |-> "panic"])
             ELSE IF call = "show_columns"
             THEN Some([k |-> "returned", fmt |-> "array", data |-> result.v])
             ELSE IF output_format = <<"c", "s", "v">>
             THEN Some([k |-> "returned", fmt |-> "csv", data |-> result.v])
             ELSE IF output_format = <<"j", "s", "o", "n">>
             THEN Some([k |-> "returned", fmt |-> "json", data |-> result.v])
             ELSE Some([k |-> "thrown", fmt |-> "TypeError",
                        data |-> output_format])]
    /\ UNCHANGED <<pc, call, parsed, format, sql, raw, ds, sorted, result, io>>

Next == Bind \/ Parse \/ Translate \/ Fetch \/ Load \/ Fields \/ Execute \/ Render

-----------------------------------------------------------------------------
(* The calls the model makes *)

A == <<"a">>
B == <<"b">>
Http == <<"h", "t", "t", "p", ":", "s">>

TableRef(name) == [relation |-> [k |-> "Table", name |-> name], joins |-> <<>>]
Item(name) == [k |-> "UnnamedExpr", expr |-> Ident(name)]
GroupedBody(from, selection, projection, group_by) ==
    [k |-> "Select", from |-> from, selection |-> selection,
     projection |-> projection, group_by |-> group_by]
SelectBody(from, selection, projection) ==
    GroupedBody(from, selection, projection, <<>>)
Query(body, order_by, limit_clause) ==
    [k |-> "Query", body |-> body, order_by |-> order_by,
     limit_clause |-> limit_clause]
Expressions(list) == [kind |-> "Expressions", exprs |-> list]
OrderByExpr(e, asc) == [expr |-> e, asc |-> asc]

From1 == <<TableRef(<<Ident(Http)>>)>>
One == Value(Number(<<"1">>))

\* SELECT a, b FROM http:s [WHERE ..] [ORDER BY ..] [LIMIT .. OFFSET ..]
Plain(selection, order_by, limit_clause) ==
    Query(SelectBody(From1, selection, <<Item(A), Item(B)>>), order_by,
          limit_clause)

\* ORDER BY lists: identifiers and an expression, with and without direction
OrderEntries ==
    {OrderByExpr(Ident(A), asc) : asc \in {None, Some(TRUE), Some(FALSE)}}
      \cup {OrderByExpr(Ident(B), asc) : asc \in {None, Some(FALSE)}}
      \cup {OrderByExpr(BinaryOp(Ident(A), "Plus", One), asc) :
               asc \in {None, Some(TRUE)}}

OrderByStatements ==
    {Plain(None, Some(Expressions(list)), None) :
        list \in SeqsOf(OrderEntries, 0, MaxOrderBy)}
      \cup {Plain(None, Some([kind |-> "All"]), None)}

\* LIMIT and OFFSET values: short number tokens, numbers around 2^32, 2^63
\* and 2^64, a string, an identifier
Texts ==
    {s \in SeqsOf({"0", "2", "."}, 1, MaxLit) :
        /\ \E i \in 1..Len(s) : s[i] \in Digits
        /\ Cardinality({i \in 1..Len(s) : s[i] = "."}) <= 1}
LongTexts ==
    {<<"4", "2", "9", "4", "9", "6", "7", "2", "9", "7">>,
     <<"9", "2", "2", "3", "3", "7", "2", "0", "3", "6", "8", "5", "4", "7",
       "7", "5", "8", "0", "8">>,
     <<"1", "8", "4", "4", "6", "7", "4", "4", "0", "7", "3", "7", "0", "9",
       "5", "5", "1", "6", "1", "6">>}
LimitExprs ==
    {Value(Number(s)) : s \in Texts \cup LongTexts}
      \cup {Value(SingleQuotedString(<<"1">>)), Ident(A)}
LimitClauses ==
    {None, Some([k |-> "OffsetCommaLimit"])}
      \cup {Some([k |-> "LimitOffset", limit |-> l, offset |-> o]) :
               l \in {None} \cup {Some(e) : e \in LimitExprs},
               o \in {None} \cup {Some([value |-> e]) : e \in LimitExprs}}

\* b > 1 and a=1, the second comparison lexed as one identifier
Where1 == BinaryOp(BinaryOp(Ident(B), "Gt", One), "And", Ident(<<"a", "=", "1">>))

LimitStatements ==
    {Plain(None, None, lc) : lc \in LimitClauses}
      \cup {Plain(Some(Where1), Some(Expressions(<<OrderByExpr(Ident(A), None)>>)), lc) :
               lc \in LimitClauses}

\* Predicates: every binary operator once, then nests of a few of them
SqlBinaryOperators ==
    {"Plus", "Minus", "Multiply", "Divide", "Modulo", "Gt", "Lt", "GtEq",
     "LtEq", "Eq", "NotEq", "And", "Or", "Xor", "StringConcat"}
NestOperators == {"Gt", "Xor"}
Leaves == {Ident(A), One, Value(SingleQuotedString(<<"x">>)), Nested(Ident(A))}

RECURSIVE Nests(_)
Nests(n) ==
    IF n = 0 THEN Leaves
    ELSE LET inner == Nests(n - 1)
         IN inner
              \cup {BinaryOp(l, op, r) : l \in inner, op \in NestOperators, r \in Leaves}
              \cup {BinaryOp(l, op, r) : l \in Leaves, op \in NestOperators, r \in inner}

Predicates ==
    {BinaryOp(l, op, r) : l \in Leaves, op \in SqlBinaryOperators, r \in Leaves}
      \cup Nests(MaxNest)
      \cup {Ident(s) : s \in SeqsOf({"a", "=", ">", "1"}, 1, MaxIdent)}
      \cup {SqlWildcard, Value([k |-> "Boolean"]), Value([k |-> "Null"])}

WhereStatements == {Plain(Some(e), None, None) : e \in Predicates}

\* Select lists
SelectItems ==
    {Item(A), Item(B),
     [k |-> "ExprWithAlias", expr |-> Ident(A), alias |-> <<"x">>],
     [k |-> "ExprWithAlias", expr |-> One, alias |-> <<"x">>],
     [k |-> "UnnamedExpr", expr |-> BinaryOp(Ident(A), "Plus", One)],
     [k |-> "Wildcard"],
     [k |-> "QualifiedWildcard"]}

SelectStatements ==
    {Query(SelectBody(From1, None, items), None, None) :
        items \in SeqsOf(SelectItems, 1, MaxItems)}

\* GROUP BY statements: known and unknown keys, with and without WHERE, with
\* and without ORDER BY, LIMIT and OFFSET; and one with an aggregate
Count(alias) ==
    [k |-> "ExprWithAlias",
     expr |-> [k |-> "Function", name |-> "count", arg |-> <<"*">>],
     alias |-> alias]

GroupByStatements ==
    {Query(GroupedBody(From1, where, items, keys), tail.order_by, tail.limit_clause) :
        where \in {None, Some(Where1)},
        items \in {<<Item(A)>>, <<Item(B)>>, <<Item(A), Item(B)>>,
                   <<Count(<<"n">>), Item(A)>>},
        keys \in {<<Ident(A)>>, <<Ident(B)>>, <<Ident(A), Ident(B)>>,
                  <<Ident(<<"c">>)>>},
        tail \in {[order_by |-> None, limit_clause |-> None],
                  [order_by |-> Some(Expressions(<<OrderByExpr(Ident(A), Some(FALSE))>>)),
                   limit_clause |-> Some([k |-> "LimitOffset", limit |-> Some(One),
                                          offset |-> Some([value |-> One])])]}}

\* FROM clauses
Sources ==
    {Http, <<"h", "t", "t", "p">>, <<"a", "b">>, <<"a", "b", "é">>,
     <<"a", "b", "c", "é">>, <<"f", "t", "p", ":", "s">>,
     <<"f", "i", "l", "e", ":", "/", "/", "p">>,
     <<"f", "i", "l", "e", ":", "/", "/">>,
     <<"f", "i", "l", "e", ":">>,
     <<"f", "i", "l", "e", "x", "x", "é">>}

Joined == [relation |-> [k |-> "Table", name |-> <<Ident(Http)>>],
           joins |-> <<"join">>]

FromClauses ==
    {<<TableRef(<<Ident(s)>>)>> : s \in Sources}
      \cup {<<>>, <<TableRef(<<Ident(Http)>>), TableRef(<<Ident(Http)>>)>>,
            <<Joined>>,
            <<[relation |-> [k |-> "Derived"], joins |-> <<>>]>>,
            <<TableRef(<<Ident(Http), Ident(A)>>)>>,
            <<TableRef(<<[k |-> "Function"]>>)>>,
            <<TableRef(<<>>)>>}

FromStatements ==
    {Query(SelectBody(from, None, <<Item(A)>>), None, None) : from \in FromClauses}

\* Statements that are no plain SELECT
OtherStatements ==
    {[k |-> "ShowColumns", table |-> Http], [k |-> "Insert"],
     Query([k |-> "SetOperation"], None, None),
     Query([k |-> "Values"], None, None),
     Query([k |-> "SetOperation"],
           Some(Expressions(<<OrderByExpr(One, None)>>)),
           Some([k |-> "LimitOffset", limit |-> Some(Ident(A)), offset |-> None]))}

\* What the parser returns: an error, or a list of statements
Parsings ==
    {[ok |-> FALSE, ast |-> <<>>], [ok |-> TRUE, ast |-> <<>>],
     [ok |-> TRUE, ast |-> <<Plain(None, None, None), Plain(None, None, None)>>]}
      \cup {[ok |-> TRUE, ast |-> <<s>>] : s \in FromStatements \cup OtherStatements}

Calls ==
    {[call |-> "query", format |-> "Csv", parsed |-> [ok |-> TRUE, ast |-> <<s>>]] :
        s \in OrderByStatements \cup LimitStatements \cup WhereStatements
                \cup SelectStatements \cup GroupByStatements}
      \cup {[call |-> c, format |-> f, parsed |-> p] :
               c \in {"query", "show_columns"}, f \in {"Csv", "Json"},
               p \in Parsings}

\* The format and output arguments JavaScript may pass
FormatArgs ==
    {None, Some(<<"c", "s", "v">>), Some(<<"J", "S", "O", "N">>),
     Some(<<"x", "m", "l">>)}

OutputArgs ==
    {None, Some(<<"j", "s", "o", "n">>), Some(<<"C", "S", "V">>),
     Some(<<"x", "m", "l">>)}

\* Calls of the Node binding
JsCalls ==
    {[call |-> "query", format |-> f, output |-> o, parsed |-> p] :
        f \in FormatArgs, o \in OutputArgs,
        p \in {[ok |-> FALSE, ast |-> <<>>],
               [ok |-> TRUE, ast |-> <<Plain(None, None, None)>>]}}
      \cup {[call |-> "show_columns", format |-> f, output |-> None,
              parsed |-> [ok |-> TRUE, ast |-> <<Plain(None, None, None)>>]] :
                f \in FormatArgs}

Init ==
    /\ \/ \E c \in Calls :
             /\ call = c.call /\ format = c.format /\ parsed = c.parsed
             /\ host = [binding |-> "rs"]
             /\ pc = "start"
       \/ \E c \in JsCalls :
             /\ call = c.call /\ format = None /\ parsed = c.parsed
             /\ host = [binding |-> "js", format |-> c.format,
                        output |-> c.output, out |-> None]
             /\ pc = "entry"
    /\ sql = None
    /\ raw = None
    /\ ds = None
    /\ sorted = None
    /\ result = None
    /\ io = <<>>

Spec == Init /\ [][Next]_vars

-----------------------------------------------------------------------------
(* The properties *)

\* The statement of the call, once the parser gave exactly one
Stmt == parsed.ast[1]

\* The translation has run
Ran == sql # None

\* The translation has run and gave a logical query
HasSql == Ran /\ sql.ok

IsSelect(stmt) == stmt.k = "Query" /\ stmt.body.k = "Select"

\* The n-th smallest member of a set of numbers
Nth(S, n) == CHOOSE x \in S : Cardinality({y \in S : y < x}) = n - 1

DirOf(entry) == IF entry.asc.v THEN "Asc" ELSE "Desc"

\* The direction of entry i of list: its own, or that of the nearest entry
\* to its right, among the entries `among`, that states one, or Descending
Inherited(list, i, among) ==
    LET later == {j \in among : j > i /\ list[j].asc.some}
    IN IF list[i].asc.some THEN DirOf(list[i])
       ELSE IF later = {} THEN "Desc"
       ELSE DirOf(list[Nth(later, 1)])

HasOrderList == HasSql /\ Stmt.order_by.some /\ Stmt.order_by.v.kind = "Expressions"

\* C1 as stated: every entry of an ORDER BY list comes back, in its place,
\* with its own direction or the one of the nearest entry to its right that
\* states a direction, Descending if there is none.
C1_AsStated ==
    HasOrderList =>
        LET list == Stmt.order_by.v.exprs
            out == sql.v.order_by
        IN /\ Len(out) = Len(list)
           /\ \A i \in 1..Len(list) :
                 /\ out[i].name = list[i].expr.value
                 /\ out[i].order = Inherited(list, i, 1..Len(list))

\* C1, amended: the identifier entries of an ORDER BY list come back in their
\* original order (the other entries are left out); each keeps its explicit
\* direction, and one without a direction gets that of the nearest identifier
\* entry to its right that states one, Descending if there is none.
C1_OrderByInheritance ==
    HasOrderList =>
        LET list == Stmt.order_by.v.exprs
            ids == {i \in 1..Len(list) : list[i].expr.k = "Identifier"}
            out == sql.v.order_by
        IN /\ Len(out) = Cardinality(ids)
           /\ \A n \in 1..Len(out) :
                 /\ out[n].name = list[Nth(ids, n)].expr.value
                 /\ out[n].order = Inherited(list, Nth(ids, n), ids)

\* ORDER BY a, b DESC, a ASC has been translated (the shape of the test)
C1_Witness ==
    /\ pc = "translated"
    /\ HasOrderList
    /\ Stmt.order_by.v.exprs = <<OrderByExpr(Ident(A), None),
                                 OrderByExpr(Ident(B), Some(FALSE)),
                                 OrderByExpr(Ident(A), Some(TRUE))>>
    /\ sql.v.order_by = <<[name |-> A, order |-> "Desc"],
                          [name |-> B, order |-> "Desc"],
                          [name |-> A, order |-> "Asc"]>>

\* The rows of the answer of a finished query, as the selection would give
\* them from `rows` of the loaded table
Projected(rows) == Select(rows, ds.v, sql.v.selection).v.rows

\* C2 as stated: on the simple-select branch the rows are sliced exactly
\* when OFFSET or LIMIT is present, and then the answer is the rows of the
\* filtered-then-sorted table from index offset (0 when absent), limit of
\* them (20 when absent) or as many as there are; with neither, the answer
\* is every row that satisfies the condition.
C2_AsStated ==
    (pc = "done" /\ call = "query" /\ Len(sql.v.group_by) = 0) =>
        LET q == sql.v
            rows == sorted.v
            start == Capped(UnwrapOr(q.offset, Small(0)), Len(rows))
            count == Capped(UnwrapOr(q.limit, Small(20)), Len(rows) - start)
            kept == IF q.offset.some \/ q.limit.some
                    THEN SubSeq(rows, start + 1, start + count)
                    ELSE rows
            passing == {i \in 1..Len(ds.v.rows) :
                           ~q.condition.some
                             \/ Eval(q.condition.v, ds.v, ds.v.rows[i])}
        IN /\ result.v.rows = Projected(kept)
           /\ (q.offset.some /\ ~q.limit.some) => Len(result.v.rows) <= 20
           /\ (~q.offset.some /\ ~q.limit.some) =>
                 Len(result.v.rows) = Cardinality(passing)

\* An expression that is a number token made of digits only
IsIntegerLiteral(e) ==
    e.k = "Value" /\ e.value.k = "Number" /\ Len(e.value.s) > 0
      /\ AllDigits(e.value.s)

HasLimitOffset ==
    HasSql /\ Stmt.limit_clause.some /\ Stmt.limit_clause.v.k = "LimitOffset"

\* C3 as stated: a LIMIT or OFFSET value that is no integer literal does not
\* fail the translation and leaves the limit / offset of the logical query
\* absent.
C3_AsStated ==
    HasLimitOffset =>
        LET lc == Stmt.limit_clause.v
        IN /\ (lc.limit.some /\ ~IsIntegerLiteral(lc.limit.v)) => ~sql.v.limit.some
           /\ (lc.offset.some /\ ~IsIntegerLiteral(lc.offset.v.value)) =>
                 ~sql.v.offset.some

C5_AsStated ==
    (call = "show_columns" /\ pc \in {"failed", "done"} /\ parsed.ok
       /\ Len(parsed.ast) = 1 /\ Stmt.k = "ShowColumns") =>
        /\ pc = "failed" => result.err \in {"FetchError", "FetchResourceError"}
        /\ pc = "done" =>
              /\ Len(result.v) = Len(ds.v.cols)
              /\ \A i \in 1..Len(result.v) :
                    result.v[i] = <<ds.v.cols[i].name, ds.v.cols[i].dtype>>

\* C6: the source is extracted only from a FROM clause of exactly one table
\* reference without joins, and is then the text of the first identifier of
\* that table's name; no table, several tables, a join or a relation that is
\* no table fail with SqlTableError.
C6_SourceExtraction ==
    (Ran /\ IsSelect(Stmt)) =>
        LET from == Stmt.body.from
            single == Len(from) = 1 /\ Len(from[1].joins) = 0
        IN /\ sql.ok =>
                 /\ single
                 /\ from[1].relation.k = "Table"
                 /\ sql.v.source = from[1].relation.name[1].value
           /\ (~single \/ from[1].relation.k # "Table") =>
                 ~sql.ok /\ sql.err = "SqlTableError"

\* A FROM clause with a join has been refused
C6_Witness ==
    /\ pc = "failed"
    /\ Ran /\ IsSelect(Stmt)
    /\ Len(Stmt.body.from) = 1 /\ Len(Stmt.body.from[1].joins) > 0
    /\ result.err = "SqlTableError"

Supported ==
    {"Plus", "Minus", "Multiply", "Divide", "Modulo", "Eq", "NotEq", "Gt",
     "GtEq", "Lt", "LtEq", "And", "Or"}

SameNamed(op) == IF op = "Modulo" THEN "Modulus" ELSE op

RECURSIVE HasUnsupported(_)
HasUnsupported(e) ==
    e.k = "BinaryOp" /\ (e.op \notin Supported \/ HasUnsupported(e.left)
                           \/ HasUnsupported(e.right))

\* A leaf that translates whatever its text: an identifier or a number
PlainLeaf(e) == e.k = "Identifier" \/ (e.k = "Value" /\ e.value.k = "Number")

RECURSIVE PlainLeaves(_)
PlainLeaves(e) ==
    IF e.k = "BinaryOp" THEN PlainLeaves(e.left) /\ PlainLeaves(e.right)
    ELSE PlainLeaf(e)

\* The elements of a predicate read left operand, operator, right operand,
\* each with the error it raises, or "ok"
RECURSIVE InOrder(_)
InOrder(e) ==
    CASE e.k = "BinaryOp" ->
            InOrder(e.left)
              \o <<IF e.op \in Supported THEN "ok" ELSE "SqlOperatorError">>
              \o InOrder(e.right)
      [] e.k \in {"Identifier", "Wildcard"} -> <<"ok">>
      [] e.k = "Value" ->
            <<IF e.value.k = "Number" THEN "ok" ELSE "SqlValueError">>
      [] OTHER -> <<"SqlExpressionError">>

FirstError(e) ==
    LET errs == {i \in 1..Len(InOrder(e)) : InOrder(e)[i] # "ok"}
    IN InOrder(e)[Nth(errs, 1)]

HasWhere == Ran /\ IsSelect(Stmt) /\ Stmt.body.selection.some

\* The operator table: the 13 operators go to the variants of their names,
\* no two to the same one, and a single operator between plain leaves
\* translates to its variant or fails with SqlOperatorError
OperatorTable ==
    /\ \A a, b \in Supported :
          a # b => TryFromInterimOperator(a).v # TryFromInterimOperator(b).v
    /\ HasWhere =>
          LET e == Stmt.body.selection.v
          IN (e.k = "BinaryOp" /\ PlainLeaf(e.left) /\ PlainLeaf(e.right)) =>
                IF e.op \in Supported
                THEN sql.ok /\ sql.v.condition.v.op = SameNamed(e.op)
                ELSE ~sql.ok /\ sql.err = "SqlOperatorError"

\* C7 as stated: the operator table, and a predicate that holds an
\* unsupported operator anywhere fails as a whole with SqlOperatorError.
C7_AsStated ==
    /\ OperatorTable
    /\ (HasWhere /\ HasUnsupported(Stmt.body.selection.v)) =>
          ~sql.ok /\ sql.err = "SqlOperatorError"

\* C7, amended: the operator table, and a predicate that holds an unsupported
\* operator anywhere fails as a whole with the error of its first element
\* that does not translate, read left operand, operator, right operand:
\* SqlOperatorError when every leaf is an identifier or a number, and the
\* error of a leaf (SqlValueError, SqlExpressionError) that comes earlier.
C7_OperatorTranslation ==
    /\ OperatorTable
    /\ (HasWhere /\ HasUnsupported(Stmt.body.selection.v)) =>
          /\ ~sql.ok
          /\ sql.err = FirstError(Stmt.body.selection.v)
          /\ PlainLeaves(Stmt.body.selection.v) => sql.err = "SqlOperatorError"

\* A predicate with an unsupported operator in its right operand has failed
C7_Witness ==
    /\ pc = "failed"
    /\ HasWhere
    /\ LET e == Stmt.body.selection.v
       IN /\ e.k = "BinaryOp" /\ e.op \in Supported
          /\ e.right.k = "BinaryOp" /\ e.right.op \notin Supported
    /\ result.err = "SqlOperatorError"

\* The operator texts that start at position i of a text
OpsAt(text, i) ==
    {n \in 1..Len(IdentOps) :
        /\ i + Len(IdentOps[n]) - 1 <= Len(text)
        /\ SubSeq(text, i, i + Len(IdentOps[n]) - 1) = IdentOps[n]}

OpName(op) ==
    CASE op = <<"=">> -> "Eq" [] op = <<">">> -> "Gt" [] op = <<"<">> -> "Lt"
      [] op = <<">", "=">> -> "GtEq" [] op = <<"<", "=">> -> "LtEq"

\* C8 as stated: an identifier with an embedded operator becomes
\* Column(left) op Literal(right), op the operator embedded first in the
\* text (>= and <= as such) and left / right the text before and after it;
\* an identifier without one becomes Column(name).
C8_AsStated ==
    (HasWhere /\ Stmt.body.selection.v.k = "Identifier") =>
        LET text == Stmt.body.selection.v.value
            at == {i \in 1..Len(text) : OpsAt(text, i) # {}}
            first == Nth(at, 1)
            op == IdentOps[CHOOSE n \in OpsAt(text, first) :
                      \A m \in OpsAt(text, first) :
                         Len(IdentOps[m]) <= Len(IdentOps[n])]
            left == SubSeq(text, 1, first - 1)
            right == SubSeq(text, first + Len(op), Len(text))
        IN IF at = {} THEN sql.ok /\ sql.v.condition.v = Column(text)
           ELSE ParseF64(right).some =>
                   /\ sql.ok
                   /\ sql.v.condition.v =
                         BinaryExpr(Column(left), OpName(op),
                                    Literal(ParseF64(right).v))

\* C9 as stated: a select list of bare identifiers, aliased identifiers and
\* wildcards translates, item by item and in order, to column references,
\* aliased columns and wildcard projections; any other item fails with
\* SqlSelectItemError.
C9_AsStated ==
    (Ran /\ IsSelect(Stmt) /\ Stmt.body.from = From1 /\ ~Stmt.body.selection.some) =>
        LET items == Stmt.body.projection
            Accepted(p) ==
                \/ p.k = "Wildcard"
                \/ p.k \in {"UnnamedExpr", "ExprWithAlias"} /\ p.expr.k = "Identifier"
            Expected(p) ==
                CASE p.k = "Wildcard" -> Wildcard
                  [] p.k = "UnnamedExpr" -> Column(p.expr.value)
                  [] p.k = "ExprWithAlias" -> Alias(Column(p.expr.value), p.alias)
        IN IF \A i \in 1..Len(items) : Accepted(items[i])
           THEN /\ sql.ok
                /\ sql.v.selection = [i \in 1..Len(items) |-> Expected(items[i])]
           ELSE ~sql.ok /\ sql.err = "SqlSelectItemError"

\* C10 as stated: a source that starts with http is fetched from the
\* network, one that starts with file is read from the path after its first
\* 7 characters, and any other source, shorter than four characters or not,
\* makes the call return FetchResourceError with the prefix, without I/O.
C10_AsStated ==
    (HasSql /\ pc # "translated") =>
        LET name == sql.v.source
            prefix == SubSeq(name, 1, Min(4, Len(name)))
        IN IF prefix = <<"h", "t", "t", "p">>
           THEN io = <<[to |-> "get", arg |-> name]>>
           ELSE IF prefix = <<"f", "i", "l", "e">>
           THEN io = <<[to |-> "read", arg |-> SubSeq(name, 8, Len(name))]>>
           ELSE /\ io = <<>>
                /\ pc = "failed"
                /\ result.err = "FetchResourceError"
                /\ result.arg = prefix

\* C11 as stated: through the Node binding, a format string that is no
\* spelling of csv or json ends the call with an explicit LoadTypeError
\* before anything is fetched (no format is put in its place), and an output
\* string other than csv or json never gives an answer back.
C11_AsStated ==
    (host.binding = "js" /\ pc # "entry") =>
        LET badFormat == host.format.some
                           /\ ~TryFromStrFormatType(host.format.v).ok
            badOutput == call = "query" /\ host.output.some
                           /\ host.output.v \notin {<<"c", "s", "v">>,
                                                    <<"j", "s", "o", "n">>}
        IN /\ badFormat =>
                 /\ pc = "failed"
                 /\ result.err = "LoadTypeError"
                 /\ io = <<>>
           /\ (badOutput /\ host.out.some) => host.out.v.k # "returned"

\* The rows of the loaded table that pass the condition of the logical query
Passing ==
    {i \in 1..Len(ds.v.rows) :
        ~sql.v.condition.some \/ Eval(sql.v.condition.v, ds.v, ds.v.rows[i])}

IsCountByKey ==
    /\ Ran /\ IsSelect(Stmt)
    /\ Stmt.body.projection = <<Count(<<"n">>), Item(A)>>
    /\ Stmt.body.group_by = <<Ident(A)>>
    /\ Stmt.body.selection.some
    /\ Stmt.body.from = From1

\* C13 as stated: SELECT count(*) as n, k FROM <src> WHERE <predicate>
\* GROUP BY k translates to a logical query with group_by = [k] and the count
\* aggregate aliased n, and the finished query answers, for each distinct k
\* among the filtered rows, one row with n the number of filtered rows of
\* that key.
C13_AsStated ==
    IsCountByKey =>
        /\ sql.ok
        /\ sql.v.group_by = <<A>>
        /\ Len(sql.v.aggregation) = 1
        /\ sql.v.aggregation[1].fn = "count"
        /\ sql.v.aggregation[1].name = <<"n">>
        /\ (pc = "done" /\ call = "query") =>
              LET out == result.v
                  n == ColIndex(out, <<"n">>)
                  k == ColIndex(out, A)
                  a == ColIndex(ds.v, A)
                  keys == {ds.v.rows[i][a] : i \in Passing}
                  Size(key) == Cardinality({i \in Passing : ds.v.rows[i][a] = key})
              IN /\ n > 0 /\ k > 0
                 /\ Len(out.rows) = Cardinality(keys)
                 /\ \A key \in keys :
                       \E r \in 1..Len(out.rows) :
                          out.rows[r][k] = key /\ out.rows[r][n] = Size(key) * Scale

\* C14 as stated: a literal leaf whose text parses as a number becomes the
\* Literal of that number, and a leaf that is no number (a string, a boolean,
\* null, number text that does not parse, the right-hand part split out of
\* an identifier such as c=abc) fails with SqlValueError, never a default.
C14_AsStated ==
    HasWhere =>
        LET e == Stmt.body.selection.v
            eq == IF e.k = "Identifier" THEN SplitOnce(e.value, <<"=">>) ELSE None
            Numeric(text) == ParseF64(text).some
        IN /\ e.k = "Value" =>
                 IF e.value.k = "Number" /\ Numeric(e.value.s)
                 THEN sql.ok /\ sql.v.condition.v = Literal(ParseF64(e.value.s).v)
                 ELSE ~sql.ok /\ sql.err = "SqlValueError"
           /\ (eq.some /\ ~Numeric(eq.v.right)) =>
                 ~sql.ok /\ sql.err = "SqlValueError"

\* The parser gave exactly one statement
OneStatement == parsed.ok /\ Len(parsed.ast) = 1

\* The stages run in order, each only after the earlier ones succeeded, with
\* one fetch at most, and a call that failed holds the error of the first
\* stage that failed
StageOrder ==
    /\ Ran => OneStatement
    /\ io # <<>> => HasSql
    /\ Len(io) <= 1
    /\ (raw.some \/ ds.some) => Len(io) = 1
    /\ (sorted.some \/ pc = "done") => ds.some
    /\ (pc \notin {"entry", "start"} /\ ~OneStatement) =>
          pc = "failed" /\ result.err = "SqlConvertError"
    /\ (Ran /\ ~sql.ok) => pc = "failed" /\ result = sql /\ io = <<>>
    /\ (pc = "failed" /\ HasSql /\ ~ds.some) =>
          /\ result.err \in {"FetchResourceError", "FetchError"}
          /\ result.err = "FetchResourceError" <=> io = <<>>
    /\ (pc = "failed" /\ ds.some) => call = "query" /\ result.err = "PolarsError"

\* C15 as stated: parse, translate, fetch, load and execute run in this
\* order, each only if the earlier ones succeeded; a stage that fails ends
\* the call, which returns that stage's error (it never ends without one);
\* and a call fetches once at most.
C15_AsStated == StageOrder /\ pc # "panicked"

\* C16: a call whose SQL text does not parse, or parses to no statement or
\* to several, returns SqlConvertError without translating anything, and the
\* translation runs only on exactly one statement.
C16_ParseGate ==
    /\ (pc \notin {"entry", "start"} /\ ~OneStatement) =>
          /\ pc = "failed"
          /\ result.err = "SqlConvertError"
          /\ ~Ran
    /\ pc \in {"parsed", "translated", "fetched", "loaded", "done", "panicked"} =>
          OneStatement

\* Two statements in one text have been refused
C16_Witness ==
    /\ pc = "failed"
    /\ parsed.ok
    /\ Len(parsed.ast) = 2
    /\ result.err = "SqlConvertError"
    /\ ~Ran

IsIdentifierEntry(entry) == entry.expr.k = "Identifier"

\* The direction of entry n of a list of identifier entries: its own, or
\* the one of the entry after it, Descending after the last
RECURSIVE Resolved(_, _)
Resolved(ids, n) ==
    IF ids[n].asc.some THEN DirOf(ids[n])
    ELSE IF n = Len(ids) THEN "Desc"
    ELSE Resolved(ids, n + 1)

\* C17: the translation of an ORDER BY list never fails with SqlOrderError:
\* the entries that are no plain identifier are left out, the answer is the
\* identifier entries in their order, and each has the direction it would
\* have if the entries left out had not been written.
C17_OrderByOmission ==
    (Ran /\ IsSelect(Stmt) /\ Stmt.order_by.some
       /\ Stmt.order_by.v.kind = "Expressions") =>
        LET ids == SelectSeq(Stmt.order_by.v.exprs, IsIdentifierEntry)
            items == Stmt.body.projection
            plain == /\ Stmt.body.from = From1
                     /\ ~Stmt.body.selection.some
                     /\ \A i \in 1..Len(items) :
                           items[i].k = "UnnamedExpr" /\ items[i].expr.k = "Identifier"
        IN /\ ~sql.ok => sql.err # "SqlOrderError"
           /\ plain => sql.ok
           /\ sql.ok =>
                 sql.v.order_by =
                    [n \in 1..Len(ids) |->
                        [name |-> ids[n].expr.value, order |-> Resolved(ids, n)]]

\* ORDER BY a, a + 1 ASC has been translated to [(a, Desc)]
C17_Witness ==
    /\ pc = "translated"
    /\ HasOrderList
    /\ Stmt.order_by.v.exprs =
          <<OrderByExpr(Ident(A), None),
            OrderByExpr(BinaryOp(Ident(A), "Plus", One), Some(TRUE))>>
    /\ sql.v.order_by = <<[name |-> A, order |-> "Desc"]>>

=============================================================================
